---- MODULE Spec2Model ----
(***************************************************************************)
(* A model of youtube_unofficial.YouTube (src/youtube_unofficial/          *)
(* __init__.py): the session object, its public account operations and    *)
(* the two continuation pagers (get_playlist_info, get_history_info).      *)
(*                                                                         *)
(* One public call runs at a time (the library is single-threaded).  A     *)
(* call records every HTTP request it issues in reqs, and its outcome      *)
(* (normal return or raised exception) in result.  The web site is the     *)
(* environment: every page and every JSON response is chosen by \E from    *)
(* the shapes the code distinguishes.                                      *)
(***************************************************************************)
EXTENDS Integers, Sequences, FiniteSets, TLC

VARIABLES
    logged_in,              \* YouTubeLogin._logged_in (read by YouTube._logged_in)
    favorites_playlist_id,  \* YouTube._favorites_playlist_id
    op,                     \* the public method being executed, or "idle"
    args,                   \* its arguments
    pc,                     \* position inside the method
    gen,                    \* the generator object of a pager (its frame)
    want,                   \* the consumer is blocked in next() on the generator
    reqs,                   \* HTTP requests issued by the current call, in order
    recv,                   \* pages handed to the pager by the site, in order
    yielded,                \* items the generator has yielded, in order
    result,                 \* outcome of the current call
    fixture,                \* what the site served to the non-paged steps
    local                   \* local variables of the executing method

vars == <<logged_in, favorites_playlist_id, op, args, pc, gen, want, reqs,
          recv, yielded, result, fixture, local>>

session == <<logged_in, favorites_playlist_id>>

-----------------------------------------------------------------------------
(* Bounds of the model.                                                    *)

\* Largest number of entries the site holds in one paged collection.
MaxEntries == 2

\* Largest number of continuation responses the site serves with a cursor
\* still attached; the collection then ends.
MaxRequests == 2

-----------------------------------------------------------------------------
(* Values.                                                                 *)

\* Python's None where a str is expected, and where a token, a header set
\* or a parameter mapping is expected.
None == "None"
NoToken == <<>>

\* The truth value of an Optional argument.
Truthy(x) == x # NoToken

\* Public video ids of the entries the site serves, and the one a caller
\* asks to remove (the ids are interchangeable, so one target covers both).
VideoIds == {"v1", "v2"}
Targets == {"v1"}

\* Playlist ids a caller passes, besides "WL" and the Favorites ids.
PlaylistIds == {"PL1"}

FavIds == {"FLa", "FLb"}

\* Status codes of a service response ('code').
Codes == {"SUCCESS", "FAILURE", "PENDING"}

WATCH_LATER_URL == "WATCH_LATER_URL"
HISTORY_URL == "HISTORY_URL"
HOMEPAGE_URL == "HOMEPAGE_URL"
SEARCH_HISTORY_URL == "SEARCH_HISTORY_URL"
SERVICE_AJAX_URL == "SERVICE_AJAX_URL"
BROWSE_AJAX_URL == "BROWSE_AJAX_URL"

\* 'https://www.youtube.com/playlist?list={}'.format(playlist_id)
PlaylistUrl(playlist_id) == <<"https://www.youtube.com/playlist?list=", playlist_id>>

-----------------------------------------------------------------------------
(* Outcomes of a call or of a sub-expression.                              *)

NoResult == [status |-> "none", value |-> None, error |-> "none"]
Return(v) == [status |-> "return", value |-> v, error |-> "none"]
Raise(e) == [status |-> "raise", value |-> None, error |-> e]

Ok(v) == [ok |-> TRUE, val |-> v, err |-> "none"]
Err(e) == [ok |-> FALSE, val |-> None, err |-> e]

-----------------------------------------------------------------------------
(* JSON values as the code sees them after json.loads: a dict, a list or   *)
(* a scalar, and Python's subscription obj[key].                           *)

\* A Python str is a sequence of symbols; a symbol is a character or an
\* identifier taken as a whole.  Str(w) is the str made of the one symbol w.
Str(w) == <<w>>

EmptyFcn == [x \in {} |-> x]
Dict(f) == [tag |-> "dict", val |-> f]
List(s) == [tag |-> "list", val |-> s]
Scalar(s) == [tag |-> "scalar", val |-> s]

\* One entry of a dict literal, and the union of two dicts' entries.
Entry(w, v) == Str(w) :> v

\* A subscript: a str (written as its one symbol) or an int.
Key(w) == [k |-> "key", v |-> Str(w)]
Idx(n) == [k |-> "idx", v |-> n]

\* key in obj
HasKey(obj, w) == obj.tag = "dict" /\ Str(w) \in DOMAIN obj.val

\* obj[seg] with Python's exceptions: KeyError for a missing dict key,
\* IndexError for a list index out of range (negative indices count from
\* the end), TypeError for a list subscripted by a string or a scalar
\* subscripted at all.
Subscript(obj, seg) ==
    IF obj.tag = "dict" THEN
        IF seg.k = "key" /\ seg.v \in DOMAIN obj.val
        THEN Ok(obj.val[seg.v])
        ELSE Err("KeyError")
    ELSE IF obj.tag = "list" THEN
        IF seg.k # "idx" THEN Err("TypeError")
        ELSE IF seg.v >= 0 /\ seg.v < Len(obj.val) THEN Ok(obj.val[seg.v + 1])
        ELSE IF seg.v < 0 /\ -seg.v <= Len(obj.val)
             THEN Ok(obj.val[Len(obj.val) + seg.v + 1])
        ELSE Err("IndexError")
    ELSE Err("TypeError")

\* obj[p[i]][p[i+1]]...[p[Len(p)]], stopping at the first exception.
RECURSIVE SubscriptChain(_, _, _)
SubscriptChain(obj, p, i) ==
    IF i > Len(p) THEN Ok(obj)
    ELSE LET r == Subscript(obj, p[i])
         IN IF r.ok THEN SubscriptChain(r.val, p, i + 1) ELSE r

\* The structure the site serves along a fixed structural path p: every
\* dict level holds its key unless it is level cut (cut = 0: none is
\* missing), and every list level has listLen entries.
RECURSIVE Served(_, _, _, _, _)
Served(p, i, cut, listLen, leaf) ==
    IF i > Len(p) THEN leaf
    ELSE IF p[i].k = "key" THEN
        IF cut = i THEN Dict(EmptyFcn)
        ELSE Dict([x \in {p[i].v} |-> Served(p, i + 1, cut, listLen, leaf)])
    ELSE List([j \in 1..listLen |->
                 IF j = p[i].v + 1
                 THEN Served(p, i + 1, cut, listLen, leaf)
                 ELSE Dict(EmptyFcn)])

-----------------------------------------------------------------------------
(* Page configuration and requests.                                        *)

\* find_ytcfg(soup): the tokens of the n-th page fetched by the call.
find_ytcfg(n) ==
    [EVENT_ID |-> <<"EVENT_ID", n>>, XSRF_TOKEN |-> <<"XSRF_TOKEN", n>>]

\* ytcfg_headers(ytcfg)
ytcfg_headers(ytcfg) == <<"headers", ytcfg.XSRF_TOKEN>>

\* self._download_page_soup(url)
PageRequest(url) ==
    [kind |-> "page", url |-> url, params |-> NoToken, data |-> NoToken,
     headers |-> NoToken]

\* self._download_page(SERVICE_AJAX_URL, method='post', ...)
ServiceRequest(params, data, headers) ==
    [kind |-> "service", url |-> SERVICE_AJAX_URL, params |-> params,
     data |-> data, headers |-> headers]

\* self._download_page(BROWSE_AJAX_URL, ...)
BrowseRequest(params, data, headers) ==
    [kind |-> "browse", url |-> BROWSE_AJAX_URL, params |-> params,
     data |-> data, headers |-> headers]

OfKind(s, kind) == SelectSeq(s, LAMBDA r : r.kind = kind)

\* Number of pages the call has fetched so far.
Fetched(s) == Len(OfKind(s, "page"))

-----------------------------------------------------------------------------
(* State.                                                                  *)

NoArgs ==
    [playlist_id |-> None, set_video_id |-> 0, video_id |-> None,
     csn |-> NoToken, xsrf_token |-> NoToken, headers |-> NoToken]

NoGen ==
    [kind |-> "none", pc |-> "none", batch |-> <<>>, rest |-> <<>>,
     idx |-> 0, first |-> TRUE, resp_xsrf |-> NoToken, params |-> NoToken, xsrf |-> NoToken,
     headers |-> NoToken, error |-> "none", playlist_id |-> None]

NoFixture ==
    [cut |-> 0, listLen |-> 0, codes |-> <<>>, guide |-> NoToken,
     sapisid |-> FALSE]

NoLocal ==
    [playlist_id |-> None, csn |-> NoToken, xsrf_token |-> NoToken,
     headers |-> NoToken, list |-> <<>>, error |-> "none", i |-> 0]

Init ==
    /\ logged_in = FALSE
    /\ favorites_playlist_id = None
    /\ op = "idle"
    /\ args = NoArgs
    /\ pc = "idle"
    /\ gen = NoGen
    /\ want = FALSE
    /\ reqs = <<>>
    /\ recv = <<>>
    /\ yielded = <<>>
    /\ result = NoResult
    /\ fixture = NoFixture
    /\ local = NoLocal

\* A faulty login check: clear_watch_history has lost its own.
NotLoggedInButClearing(name) == name # "clear_watch_history" /\ ~logged_in

\* if not self._logged_in: raise AuthenticationError(...), as the first
\* statement of the method called name.
NotLoggedIn(name) == ~logged_in

\* A call that starts: every per-call record is fresh.
Begin(name, a) ==
    /\ pc = "idle"
    /\ op' = name
    /\ args' = a

\* YouTube.login(): self._login_handler.login() establishes the session.
login ==
    /\ pc = "idle"
    /\ ~logged_in
    /\ logged_in' = TRUE
    /\ UNCHANGED <<favorites_playlist_id, op, args, pc, gen, want, reqs, recv,
                   yielded, result, fixture, local>>

\* The caller has received the outcome of the call; the next call may start.
Finish ==
    /\ pc = "done"
    /\ op' = "idle"
    /\ args' = NoArgs
    /\ pc' = "idle"
    /\ gen' = NoGen
    /\ want' = FALSE
    /\ reqs' = <<>>
    /\ recv' = <<>>
    /\ yielded' = <<>>
    /\ result' = NoResult
    /\ fixture' = NoFixture
    /\ local' = NoLocal
    /\ UNCHANGED session

-----------------------------------------------------------------------------
(* remove_set_video_id_from_playlist                                       *)

\* The 'sej' form field of lines 103-127.
PlaylistEditSej(playlist_id, set_video_id) ==
    [endpoint |-> "playlistEditEndpoint", playlistId |-> playlist_id,
     setVideoId |-> set_video_id, action |-> "ACTION_REMOVE_VIDEO"]

\* A faulty reading of the response: only the code FAILURE is an error.
EditOutcomeFailureOnly(code) ==
    IF code = "FAILURE" THEN Raise("UnexpectedError") ELSE Return(None)

\* Lines 141-143: any code but SUCCESS raises.
EditOutcome(code) ==
    IF code # "SUCCESS" THEN Raise("UnexpectedError") ELSE Return(None)

\* The body of remove_set_video_id_from_playlist after the login check:
\* the requests it issues (appended to rq) and its outcome, given the
\* status code of the service response.
RemoveSetVideoId(rq, playlist_id, set_video_id, csn, xsrf_token, headers, code) ==
    LET fetch == ~Truthy(headers) \/ ~Truthy(csn) \/ ~Truthy(xsrf_token)
        rq1 == IF fetch THEN Append(rq, PageRequest(WATCH_LATER_URL)) ELSE rq
        ytcfg == find_ytcfg(Fetched(rq1))
        hdrs == IF fetch THEN ytcfg_headers(ytcfg) ELSE headers
        form_data ==
            [sej |-> PlaylistEditSej(playlist_id, set_video_id),
             csn |-> IF Truthy(csn) THEN csn ELSE ytcfg.EVENT_ID,
             session_token |-> IF Truthy(xsrf_token) THEN xsrf_token
                               ELSE ytcfg.XSRF_TOKEN]
        post == ServiceRequest([name |-> "playlistEditEndpoint"], form_data, hdrs)
    IN [reqs |-> Append(rq1, post),
        result |-> EditOutcome(code)]

SetVideoIds == 1..MaxEntries

OptionalArg(name) == {NoToken, <<name, "arg">>}

remove_set_video_id_from_playlist ==
    \E playlist_id \in PlaylistIds \cup {"WL"}, set_video_id \in SetVideoIds,
       csn \in OptionalArg("csn"), xsrf_token \in OptionalArg("xsrf_token"),
       headers \in OptionalArg("headers"), code \in Codes :
        /\ Begin("remove_set_video_id_from_playlist",
                 [NoArgs EXCEPT !.playlist_id = playlist_id,
                                !.set_video_id = set_video_id,
                                !.csn = csn, !.xsrf_token = xsrf_token,
                                !.headers = headers])
        /\ pc' = "done"
        /\ IF NotLoggedIn("remove_set_video_id_from_playlist")
           THEN /\ result' = Raise("AuthenticationError")
                /\ UNCHANGED <<reqs, fixture>>
           ELSE LET r == RemoveSetVideoId(reqs, playlist_id, set_video_id, csn,
                                          xsrf_token, headers, code)
                IN /\ reqs' = r.reqs
                   /\ result' = r.result
                   /\ fixture' = [fixture EXCEPT !.codes = <<code>>]
        /\ UNCHANGED <<session, gen, want, recv, yielded, local>>

-----------------------------------------------------------------------------
(* clear_watch_history                                                     *)

\* The subscripts of lines 162-167, applied to initial_data(content).
CLEAR_BUTTON_PATH ==
    <<Key("contents"), Key("twoColumnBrowseResultsRenderer"),
      Key("secondaryContents"), Key("browseFeedActionsRenderer"),
      Key("contents"), Idx(2), Key("buttonRenderer"),
      Key("navigationEndpoint"), Key("confirmDialogEndpoint"), Key("content"),
      Key("confirmDialogRenderer"), Key("confirmButton"),
      Key("buttonRenderer"), Key("serviceEndpoint")>>

\* Lengths of the action list the site may serve.
ListLens == 0..3

ClearEndpoint == Scalar("clearHistoryEndpoint")

clear_watch_history ==
    /\ Begin("clear_watch_history", NoArgs)
    /\ pc' = "done"
    /\ IF NotLoggedIn("clear_watch_history")
       THEN /\ result' = Raise("AuthenticationError")
            /\ UNCHANGED <<reqs, fixture>>
       ELSE \E cut \in 0..Len(CLEAR_BUTTON_PATH), listLen \in ListLens,
               code \in Codes :
            LET rq1 == Append(reqs, PageRequest(HISTORY_URL))
                ytcfg == find_ytcfg(Fetched(rq1))
                headers == ytcfg_headers(ytcfg)
                init_data == Served(CLEAR_BUTTON_PATH, 1, cut, listLen,
                                    ClearEndpoint)
                sej == SubscriptChain(init_data, CLEAR_BUTTON_PATH, 1)
                data == [sej |-> sej.val, csn |-> ytcfg.EVENT_ID,
                         session_token |-> ytcfg.XSRF_TOKEN]
            IN IF ~sej.ok /\ sej.err = "KeyError"
               THEN \* except KeyError: return
                    /\ reqs' = rq1
                    /\ result' = Return(None)
                    /\ fixture' = [fixture EXCEPT !.cut = cut,
                                                  !.listLen = listLen]
               ELSE IF ~sej.ok
               THEN /\ reqs' = rq1
                    /\ result' = Raise(sej.err)
                    /\ fixture' = [fixture EXCEPT !.cut = cut,
                                                  !.listLen = listLen]
               ELSE \* the response is not inspected
                    /\ reqs' = Append(rq1,
                           ServiceRequest([name |-> "feedbackEndpoint"], data,
                                          headers))
                    /\ result' = Return(None)
                    /\ fixture' = [fixture EXCEPT !.cut = cut,
                                                  !.listLen = listLen,
                                                  !.codes = <<code>>]
    /\ UNCHANGED <<session, gen, want, recv, yielded, local>>

-----------------------------------------------------------------------------
(* get_favorites_playlist_id                                               *)

\* Largest number of entries of the guide's section list.
MaxGuideItems == 2

\* Largest number of entries nested in one collapsible guide entry.
MaxExpandable == 1

RECURSIVE SeqsUpTo(_, _)
SeqsUpTo(S, n) ==
    IF n = 0 THEN {<<>>}
    ELSE LET shorter == SeqsUpTo(S, n - 1)
         IN shorter \cup {Append(s, x) : s \in {t \in shorter : Len(t) = n - 1},
                                         x \in S}

\* The subscripts of lines 214-215, applied to initial_guide_data(content).
SECTION_ITEMS_PATH ==
    <<Key("items"), Idx(0), Key("guideSectionRenderer"), Key("items"), Idx(4),
      Key("guideCollapsibleSectionEntryRenderer"), Key("sectionItems")>>

ICON_TYPE_PATH == <<Key("guideEntryRenderer"), Key("icon"), Key("iconType")>>

ENTRY_ID_PATH ==
    <<Key("guideEntryRenderer"), Key("entryData"), Key("guideEntryData"),
      Key("guideEntryId")>>

EXPANDABLE_PATH ==
    <<Key("guideCollapsibleEntryRenderer"), Key("expandableItems")>>

\* Guide entries as the site serves them.
GuideEntry(iconType, id) ==
    Dict(Entry("guideEntryRenderer",
         Dict(Entry("icon", Dict(Entry("iconType", Scalar(iconType))))
              @@ Entry("entryData",
                   Dict(Entry("guideEntryData",
                        Dict(Entry("guideEntryId", Scalar(id)))))))))

CollapsibleEntry(items) ==
    Dict(Entry("guideCollapsibleEntryRenderer",
               Dict(Entry("expandableItems", List(items)))))

OtherEntry == Dict(Entry("guideSubscriptionsSectionRenderer", Dict(EmptyFcn)))

PlainEntries ==
    {GuideEntry("LIKES_PLAYLIST", f) : f \in FavIds}
        \cup {GuideEntry("WATCH_LATER", "WL"), OtherEntry}

SectionEntries ==
    PlainEntries
        \cup {CollapsibleEntry(e) : e \in SeqsUpTo(PlainEntries, MaxExpandable)}

\* Lengths of the lists along SECTION_ITEMS_PATH the site may serve.
GuideListLens == {0, 1, 5}

\* The guides the site may serve: the section list is reachable and holds
\* any entries, or it is not reachable.
Guides ==
    [cut : {0}, listLen : {5}, items : SeqsUpTo(SectionEntries, MaxGuideItems)]
        \cup {g \in [cut : 0..Len(SECTION_ITEMS_PATH), listLen : GuideListLens,
                     items : {<<>>}] : g.cut # 0 \/ g.listLen # 5}

\* The str held by the scalar a subscript chain ends at.
IdOf(r) == IF r.ok THEN Ok(r.val.val) ELSE r

\* The inner loop of check_section_items (lines 204-208).
RECURSIVE check_expandable_items(_, _)
check_expandable_items(e_items, j) ==
    IF j > Len(e_items) THEN Ok(None)
    ELSE LET icon == SubscriptChain(e_items[j], ICON_TYPE_PATH, 1)
         IN IF ~icon.ok THEN icon
            ELSE IF icon.val = Scalar("LIKES_PLAYLIST")
            THEN IdOf(SubscriptChain(e_items[j], ENTRY_ID_PATH, 1))
            ELSE check_expandable_items(e_items, j + 1)

\* check_section_items (lines 194-209), from the i-th item on: Ok(the id
\* found), Ok(None) or the exception a subscript raised.
RECURSIVE check_section_items(_, _)
check_section_items(items, i) ==
    IF i > Len(items) THEN Ok(None)
    ELSE LET item == items[i]
         IN IF HasKey(item, "guideEntryRenderer") THEN
                LET icon == SubscriptChain(item, ICON_TYPE_PATH, 1)
                IN IF ~icon.ok THEN icon
                   ELSE IF icon.val = Scalar("LIKES_PLAYLIST")
                   THEN IdOf(SubscriptChain(item, ENTRY_ID_PATH, 1))
                   ELSE check_section_items(items, i + 1)
            ELSE IF HasKey(item, "guideCollapsibleEntryRenderer") THEN
                LET e == SubscriptChain(item, EXPANDABLE_PATH, 1)
                    found == IF e.ok THEN check_expandable_items(e.val.val, 1)
                             ELSE e
                IN IF ~found.ok \/ found.val # None THEN found
                   ELSE check_section_items(items, i + 1)
            ELSE check_section_items(items, i + 1)

\* A faulty lookup: the id found is not stored.
CacheFavoritesForgotten(found) == None

\* What a successful lookup stores in self._favorites_playlist_id.
CacheFavorites(found) == found

\* The body of get_favorites_playlist_id after the login check: the
\* requests issued (appended to rq), the outcome and the cached id after
\* the call, given the cached id before it and the guide the site serves.
GetFavoritesPlaylistId(rq, cached, guide) ==
    IF cached # None
    THEN [reqs |-> rq, result |-> Return(cached), cached |-> cached]
    ELSE
    LET rq1 == Append(rq, PageRequest(HOMEPAGE_URL))
        gd == Served(SECTION_ITEMS_PATH, 1, guide.cut, guide.listLen,
                     List(guide.items))
        section_items == SubscriptChain(gd, SECTION_ITEMS_PATH, 1)
        found == check_section_items(section_items.val.val, 1)
        expandable_items ==
            SubscriptChain(section_items.val,
                           <<Idx(-1)>> \o EXPANDABLE_PATH, 1)
        found2 == check_section_items(expandable_items.val.val, 1)
        raised(e) == [reqs |-> rq1, result |-> Raise(e), cached |-> cached]
        got(f) == [reqs |-> rq1, result |-> Return(CacheFavorites(f)),
                   cached |-> CacheFavorites(f)]
    IN IF ~section_items.ok THEN raised(section_items.err)
       ELSE IF ~found.ok THEN raised(found.err)
       ELSE IF found.val # None THEN got(found.val)
       ELSE IF ~expandable_items.ok THEN raised(expandable_items.err)
       ELSE IF ~found2.ok THEN raised(found2.err)
       ELSE IF found2.val = None THEN raised("ValueError")
       ELSE got(found2.val)

get_favorites_playlist_id ==
    /\ Begin("get_favorites_playlist_id", NoArgs)
    /\ pc' = "done"
    /\ IF NotLoggedIn("get_favorites_playlist_id")
       THEN /\ result' = Raise("AuthenticationError")
            /\ UNCHANGED <<reqs, fixture, favorites_playlist_id>>
       ELSE \E guide \in Guides :
            LET r == GetFavoritesPlaylistId(reqs, favorites_playlist_id, guide)
            IN /\ reqs' = r.reqs
               /\ result' = r.result
               /\ favorites_playlist_id' = r.cached
               /\ fixture' = [fixture EXCEPT
                                !.guide = IF favorites_playlist_id # None
                                          THEN NoToken ELSE guide]
    /\ UNCHANGED <<logged_in, gen, want, recv, yielded, local>>

-----------------------------------------------------------------------------
(* The paged collections as the site serves them.                          *)

\* An entry of a playlist or of the history.  id is its position in the
\* site's rendering order: it stands for the entry's set-video-id (playlist)
\* or its service-endpoint descriptor (history).  videoId = None: the item
\* carries no video renderer (some other renderer of the site).
\* The items differ in what the consumer reads of them: nothing when the
\* user iterates, the presence of the renderer when a playlist is cleared,
\* the renderer and its video id when one video is removed.
ItemVideoIds(name) ==
    IF name \in {"get_playlist_info", "get_history_info"} THEN {"v1"}
    ELSE IF name \in {"clear_playlist", "clear_watch_later", "clear_favorites"}
    THEN {"v1", None}
    ELSE VideoIds \cup {None}

\* How many entries the collection holds at most.  The consumers that act
\* on the entries are followed over one entry more: a removal by video id
\* from Favorites filters every entry, the ones that follow two entries of
\* the same video included; clear_playlist may leave entries behind a first
\* one removed and a second one whose removal failed.
EntryLimit(name) ==
    IF name \in {"remove_video_id_from_favorites", "clear_playlist",
                 "clear_watch_later", "clear_favorites"}
    THEN MaxEntries + 1
    ELSE MaxEntries

Items(name, from, n) ==
    {[j \in 1..n |-> [id |-> from + j, videoId |-> f[j]]] :
        f \in [1..n -> ItemVideoIds(name)]}

\* The continuation cursor the site issues with its k-th page:
\* (continuation, clickTrackingParams).
Cursor(k) == [continuation |-> <<"continuation", k>>, itct |-> <<"itct", k>>]

NoCursor == [continuation |-> NoToken, itct |-> NoToken]

\* What the k-th page holds under 'continuations': the key is absent; the
\* list is empty; its nextContinuationData lacks 'clickTrackingParams'; or
\* a cursor, the page's own or, again, the one of the first page (the
\* repetition is served to the enumerations the user iterates: a draining
\* consumer goes through the same pager code).  Unread: the pager has not
\* looked yet.
Unread == [kind |-> "unread", cursor |-> NoCursor]

Absent == [kind |-> "absent", cursor |-> NoCursor]

NoMore(k) ==
    {Absent, [kind |-> "emptyList", cursor |-> NoCursor],
     [kind |-> "noItct", cursor |-> [Cursor(k) EXCEPT !.itct = NoToken]]}

More(name, k) ==
    {[kind |-> "cursor", cursor |-> Cursor(j)] :
        j \in IF name \in {"get_playlist_info", "get_history_info"}
              THEN {1, k} ELSE {k}}

\* The site ends every collection: its page MaxRequests + 1 has no cursor.
Nexts(name, k) ==
    IF k <= MaxRequests THEN NoMore(k) \cup More(name, k) ELSE NoMore(k)

\* The ways to cut a list of items into consecutive non-empty sections.
RECURSIVE Sections(_)
Sections(L) ==
    IF L = <<>> THEN {<<>>}
    ELSE UNION {{<<SubSeq(L, 1, k)>> \o rest :
                    rest \in Sections(SubSeq(L, k + 1, Len(L)))} : k \in 1..Len(L)}

\* The 'contents' of a page holding the items L: the list itself for a
\* playlist; for the history a list of sections (none, an empty one, or
\* the items cut into sections).
Contents(kind, L) ==
    IF kind = "playlist" THEN {L}
    ELSE IF L = <<>> THEN {<<>>, << <<>> >>}
    ELSE Sections(L)

RECURSIVE Flatten(_)
Flatten(ss) == IF ss = <<>> THEN <<>> ELSE Head(ss) \o Flatten(Tail(ss))

\* The items a page holds, in rendering order.
PageItems(kind, page) ==
    IF kind = "playlist" THEN page.contents ELSE Flatten(page.contents)

RECURSIVE Concat(_, _)
Concat(kind, pages) ==
    IF pages = <<>> THEN <<>>
    ELSE PageItems(kind, Head(pages)) \o Concat(kind, Tail(pages))

\* The pages the site may serve next, after the pages in got: a well-formed
\* page with some of the remaining entries, or one of the malformed shapes.
\*   noRenderer   the list renderer is missing from the initial state
\*   noEnvelope   'continuationContents' is missing from the response
\*   noContainer  the per-kind continuation key is missing from the envelope
\*   noContents   'contents' is missing from the list renderer
SitePages(name, kind, got) ==
    LET from == Len(Concat(kind, got))
        first == got = <<>>
        token == <<"xsrf_token", Len(got)>>
        shapes == IF first THEN {"noRenderer", "noContents"}
                  ELSE {"noEnvelope", "noContainer", "noContents"}
    IN {[shape |-> "ok", contents |-> c, next |-> Unread, xsrf_token |-> token] :
            c \in UNION {Contents(kind, L) :
                            L \in UNION {Items(name, from, k) :
                                           k \in 0..(EntryLimit(name) - from)}}}
       \cup {[shape |-> sh, contents |-> <<>>, next |-> Unread,
              xsrf_token |-> token] : sh \in shapes}

-----------------------------------------------------------------------------
(* The pagers: get_playlist_info and get_history_info.  Both are generator *)
(* functions: the call creates the generator and runs none of its body;    *)
(* the body runs while the consumer is blocked in next().                  *)

\* The generator object right after the call.
NewGen(kind, playlist_id) ==
    [NoGen EXCEPT !.kind = kind, !.pc = "start", !.playlist_id = playlist_id]

GenMethod ==
    IF gen.kind = "playlist" THEN "get_playlist_info" ELSE "get_history_info"

GenUrl == IF gen.kind = "playlist" THEN PlaylistUrl(gen.playlist_id) ELSE HISTORY_URL

\* The consumers that drain the generator at once: list(map(...)) and
\* list(filter(...)) inside the account operations.
Eager == op \notin {"get_playlist_info", "get_history_info"}

\* What the draining consumer does with one yielded item: Ok(the list
\* collected so far) or the exception its lambda raised.
\*   clear_playlist (line 320): x['playlistVideoRenderer']['setVideoId']
\*   remove_video_id_from_favorites (lines 355-356):
\*       x['playlistVideoRenderer'][...]['videoId'] == video_id
\*   remove_video_id_from_history (lines 443-444):
\*       'videoRenderer' in x and x['videoRenderer']['videoId'] == video_id
\* A faulty filter: the comparison with video_id is missing.
HistoryMatchAnyVideo(video_id, x) == x.videoId # None

\* The filter of remove_video_id_from_history (lines 443-444).
HistoryMatch(video_id, x) == x.videoId # None /\ x.videoId = video_id

\* A faulty collection: clear_playlist gathers the set_video_ids newest
\* first.
CollectNewestFirst(name, video_id, list, x) ==
    IF name \in {"clear_playlist", "clear_watch_later", "clear_favorites"} THEN
        IF x.videoId = None THEN Err("KeyError") ELSE Ok(<<x.id>> \o list)
    ELSE IF name = "remove_video_id_from_favorites" THEN
        IF x.videoId = None THEN Err("KeyError")
        ELSE IF x.videoId = video_id THEN Ok(Append(list, x)) ELSE Ok(list)
    ELSE IF name = "remove_video_id_from_history" THEN
        IF HistoryMatch(video_id, x) THEN Ok(Append(list, x)) ELSE Ok(list)
    ELSE Ok(list)

\* list(map(lambda, playlist_info)) and list(filter(lambda, ...)): one item.
Collect(name, video_id, list, x) ==
    IF name \in {"clear_playlist", "clear_watch_later", "clear_favorites"} THEN
        IF x.videoId = None THEN Err("KeyError") ELSE Ok(Append(list, x.id))
    ELSE IF name = "remove_video_id_from_favorites" THEN
        IF x.videoId = None THEN Err("KeyError")
        ELSE IF x.videoId = video_id THEN Ok(Append(list, x)) ELSE Ok(list)
    ELSE IF name = "remove_video_id_from_history" THEN
        IF HistoryMatch(video_id, x) THEN Ok(Append(list, x)) ELSE Ok(list)
    ELSE Ok(list)

GenRaise(e) == [gen EXCEPT !.pc = "raised", !.error = e]

\* A faulty first batch: a malformed continuation response is taken for an
\* empty page.
FirstBatchMalformedIsEmpty(kind, first, page) ==
    IF page.shape = "noContents"
    THEN IF kind = "playlist" /\ first THEN Ok(<<<<>>, <<>>>>) ELSE Err("KeyError")
    ELSE IF page.shape # "ok"
    THEN IF first THEN Err("KeyError") ELSE Ok(<<<<>>, <<>>>>)
    ELSE IF kind = "playlist" THEN Ok(<<page.contents, <<>>>>)
    ELSE IF page.contents = <<>> THEN Ok(<<<<>>, <<>>>>)
    ELSE Ok(<<Head(page.contents), Tail(page.contents)>>)

\* A faulty first batch: only the first section of a history page is read.
FirstBatchFirstSectionOnly(kind, first, page) ==
    IF page.shape = "noContents"
    THEN IF kind = "playlist" /\ first THEN Ok(<<<<>>, <<>>>>) ELSE Err("KeyError")
    ELSE IF page.shape # "ok" THEN Err("KeyError")
    ELSE IF kind = "playlist" THEN Ok(<<page.contents, <<>>>>)
    ELSE IF page.contents = <<>> THEN Ok(<<<<>>, <<>>>>)
    ELSE Ok(<<Head(page.contents), <<>>>>)

\* The first batch of a page: Ok(<<batch, remaining sections>>) or KeyError.
\*   playlist, first page (lines 259-262): a missing 'contents' yields nothing
\*   playlist, continuation (lines 287-288) and history (lines 383, 413):
\*       a missing 'contents' raises
FirstBatch(kind, first, page) ==
    IF page.shape = "noContents"
    THEN IF kind = "playlist" /\ first THEN Ok(<<<<>>, <<>>>>) ELSE Err("KeyError")
    ELSE IF page.shape # "ok" THEN Err("KeyError")
    ELSE IF kind = "playlist" THEN Ok(<<page.contents, <<>>>>)
    ELSE IF page.contents = <<>> THEN Ok(<<<<>>, <<>>>>)
    ELSE Ok(<<Head(page.contents), Tail(page.contents)>>)

\* The generator with a page received.
GenReceive(g, first, page) ==
    LET b == FirstBatch(g.kind, first, page)
    IN IF ~b.ok THEN [g EXCEPT !.pc = "raised", !.error = b.err]
       ELSE [g EXCEPT !.pc = "yield", !.batch = b.val[1], !.rest = b.val[2],
                      !.idx = 1, !.first = first,
                      !.resp_xsrf = page.xsrf_token]

\* First next(): the login check, the page fetch and the extraction of
\* the list renderer (lines 244-258 and 371-382).
GenStart ==
    /\ gen.pc = "start"
    /\ want
    /\ IF NotLoggedIn(GenMethod)
       THEN /\ gen' = GenRaise("AuthenticationError")
            /\ UNCHANGED <<reqs, recv>>
       ELSE \E page \in SitePages(op, gen.kind, <<>>) :
            LET rq1 == Append(reqs, PageRequest(GenUrl))
                ytcfg == find_ytcfg(Fetched(rq1))
            IN /\ reqs' = rq1
               /\ recv' = <<page>>
               /\ gen' = GenReceive([gen EXCEPT !.headers = ytcfg_headers(ytcfg),
                                                !.xsrf = ytcfg.XSRF_TOKEN],
                                    TRUE, page)
    /\ UNCHANGED <<session, op, args, pc, want, yielded, result, fixture, local>>

\* yield batch[idx] (yield from, lines 260, 287, 384, 414).  A draining
\* consumer applies its lambda to the item and asks for the next one.
GenYield ==
    /\ gen.pc = "yield"
    /\ want
    /\ gen.idx <= Len(gen.batch)
    /\ yielded' = Append(yielded, gen.batch[gen.idx])
    /\ gen' = [gen EXCEPT !.idx = gen.idx + 1]
    /\ IF Eager
       THEN LET c == Collect(op, args.video_id, local.list, gen.batch[gen.idx])
            IN IF c.ok
               THEN /\ local' = [local EXCEPT !.list = c.val]
                    /\ UNCHANGED want
               ELSE /\ local' = [local EXCEPT !.error = c.err]
                    /\ want' = FALSE
       ELSE /\ want' = FALSE
            /\ UNCHANGED local
    /\ UNCHANGED <<session, op, args, pc, reqs, recv, result, fixture>>

\* for section_list in section_list_renderer['contents'] (lines 383, 413):
\* the next section of the history page.
GenNextSection ==
    /\ gen.pc = "yield"
    /\ want
    /\ gen.idx > Len(gen.batch)
    /\ gen.rest # <<>>
    /\ gen' = [gen EXCEPT !.batch = Head(gen.rest), !.rest = Tail(gen.rest),
                          !.idx = 1]
    /\ UNCHANGED <<session, op, args, pc, want, reqs, recv, yielded, result,
                   fixture, local>>

\* A faulty cursor extraction: the KeyError of a page without
\* 'continuations' is not caught.
NextCursorUncaught(kind, first, next) ==
    IF next.kind = "absent" THEN Err("KeyError")
    ELSE IF next.kind = "emptyList" THEN Err("IndexError")
    ELSE IF next.kind = "noItct"
         THEN IF kind = "playlist" /\ first THEN Ok(NoCursor) ELSE Err("KeyError")
    ELSE Ok(next.cursor)

\* The cursor the pager takes from the page it has just yielded:
\* Ok(cursor) to go on, Ok(NoCursor) to stop, or the exception raised.
\*   playlist, first page (lines 264-273): KeyError is passed over, and the
\*       loop is entered only if both tokens are truthy
\*   playlist, continuation (lines 290-298): KeyError on 'continuations' breaks
\*   history, first page (lines 385-392): KeyError on the cursor returns
\*   history, continuation (lines 416-427): KeyError on 'continuations' breaks
NextCursor(kind, first, next) ==
    IF next.kind = "absent" THEN Ok(NoCursor)
    ELSE IF next.kind = "emptyList" THEN Err("IndexError")
    ELSE IF next.kind = "noItct"
         THEN IF kind = "playlist" /\ first THEN Ok(NoCursor) ELSE Err("KeyError")
    ELSE Ok(next.cursor)

\* Faulty query parameters: the click-tracking token of the first page is
\* sent with every request.
CursorParamsStaleItct(c) ==
    [ctoken |-> c.continuation, continuation |-> c.continuation,
     itct |-> Cursor(1).itct]

\* The query parameters of a continuation request (lines 275-279, 394-398).
CursorParams(c) ==
    [ctoken |-> c.continuation, continuation |-> c.continuation, itct |-> c.itct]

\* A faulty token choice: the token of the page is posted every time.
NextXsrfNeverRefreshed(g) == g.xsrf

\* The session token the history pager posts with its next request:
\* the page's token the first time (line 399), then the token of the
\* response just read (line 423).
NextXsrf(g) == IF g.first THEN g.xsrf ELSE g.resp_xsrf

\* The form data of a continuation request: none for a playlist (lines
\* 282-285), the session token for the history (line 407).
BrowseData(kind, xsrf) ==
    IF kind = "playlist" THEN NoToken ELSE [session_token |-> xsrf]

\* The batch is exhausted: take the cursor of the page and either stop or
\* issue the continuation request and read the response.
ReadCursorAndContinue ==
    /\ gen.pc = "yield"
    /\ gen.idx > Len(gen.batch)
    /\ gen.rest = <<>>
    /\ \E next \in Nexts(op, Len(recv)) :
       LET c == NextCursor(gen.kind, gen.first, next)
           read == [recv EXCEPT ![Len(recv)].next = next]
       IN IF ~c.ok
          THEN /\ gen' = GenRaise(c.err)
               /\ recv' = read
               /\ UNCHANGED reqs
          ELSE IF c.val = NoCursor
          THEN /\ gen' = [gen EXCEPT !.pc = "done"]
               /\ recv' = read
               /\ UNCHANGED reqs
          ELSE \E page \in SitePages(op, gen.kind, recv) :
               LET params == CursorParams(c.val)
                   xsrf == NextXsrf(gen)
               IN /\ reqs' = Append(reqs,
                        BrowseRequest(params, BrowseData(gen.kind, xsrf),
                                      gen.headers))
                  /\ recv' = Append(read, page)
                  /\ gen' = GenReceive([gen EXCEPT !.params = params,
                                                   !.xsrf = xsrf],
                                       FALSE, page)
    /\ UNCHANGED <<session, op, args, pc, want, yielded, result, fixture, local>>

\* A faulty pager: the next page is fetched as soon as the last item of a
\* page has been handed over, whether or not the consumer asks for more.
GenContinuePrefetching == ReadCursorAndContinue

\* The code after the last yield of a page runs only when the consumer asks
\* for the next item: the generator is suspended at the yield until then.
GenContinue == want /\ ReadCursorAndContinue

-----------------------------------------------------------------------------
(* get_playlist_info and get_history_info called by the user: the caller   *)
(* iterates, and may stop iterating at any point.                          *)

get_playlist_info ==
    \E playlist_id \in PlaylistIds :
        /\ Begin("get_playlist_info", [NoArgs EXCEPT !.playlist_id = playlist_id])
        /\ pc' = "iterate"
        /\ gen' = NewGen("playlist", playlist_id)
        /\ UNCHANGED <<session, want, reqs, recv, yielded, result, fixture, local>>

get_history_info ==
    /\ Begin("get_history_info", NoArgs)
    /\ pc' = "iterate"
    /\ gen' = NewGen("history", None)
    /\ UNCHANGED <<session, want, reqs, recv, yielded, result, fixture, local>>

\* next(generator)
IterNext ==
    /\ pc = "iterate"
    /\ ~want
    /\ gen.pc \in {"start", "yield"}
    /\ want' = TRUE
    /\ UNCHANGED <<session, op, args, pc, gen, reqs, recv, yielded, result,
                   fixture, local>>

\* The caller drops the generator between two items.
IterStop ==
    /\ pc = "iterate"
    /\ ~want
    /\ gen.pc \in {"start", "yield"}
    /\ pc' = "done"
    /\ gen' = [gen EXCEPT !.pc = "closed"]
    /\ result' = Return(None)
    /\ UNCHANGED <<session, op, args, want, reqs, recv, yielded, fixture, local>>

\* next() ends with StopIteration or with the exception the body raised.
IterEnd ==
    /\ pc = "iterate"
    /\ want
    /\ gen.pc \in {"done", "raised"}
    /\ pc' = "done"
    /\ want' = FALSE
    /\ result' = IF gen.pc = "done" THEN Return(None) ELSE Raise(gen.error)
    /\ UNCHANGED <<session, op, args, gen, reqs, recv, yielded, fixture, local>>

-----------------------------------------------------------------------------
(* clear_playlist, clear_watch_later, clear_favorites                      *)

ClearOps == {"clear_playlist", "clear_watch_later", "clear_favorites"}

\* clear_playlist after its login check, lines 310-316: the generator is
\* created (its body does not run yet), then the playlist page is fetched
\* for the tokens the removals will carry.
EnterClearPlaylist(rq, playlist_id) ==
    LET rq1 == Append(rq, PageRequest(PlaylistUrl(playlist_id)))
        ytcfg == find_ytcfg(Fetched(rq1))
    IN /\ gen' = NewGen("playlist", playlist_id)
       /\ reqs' = rq1
       /\ local' = [NoLocal EXCEPT !.playlist_id = playlist_id,
                                   !.csn = ytcfg.EVENT_ID,
                                   !.xsrf_token = ytcfg.XSRF_TOKEN,
                                   !.headers = ytcfg_headers(ytcfg)]
       /\ pc' = "collect"
       /\ want' = TRUE
       /\ result' = NoResult

\* A call that ends at once with an exception.
Fail(e) ==
    /\ pc' = "done"
    /\ result' = Raise(e)
    /\ UNCHANGED <<gen, want, reqs, local>>

clear_playlist ==
    \E playlist_id \in PlaylistIds :
        /\ Begin("clear_playlist", [NoArgs EXCEPT !.playlist_id = playlist_id])
        /\ IF NotLoggedIn("clear_playlist") THEN Fail("AuthenticationError")
           ELSE EnterClearPlaylist(reqs, playlist_id)
        /\ UNCHANGED <<session, recv, yielded, fixture>>

\* self.clear_playlist('WL')
clear_watch_later ==
    /\ Begin("clear_watch_later", NoArgs)
    /\ IF NotLoggedIn("clear_playlist") THEN Fail("AuthenticationError")
       ELSE EnterClearPlaylist(reqs, "WL")
    /\ UNCHANGED <<session, recv, yielded, fixture>>

\* self.clear_playlist(self.get_favorites_playlist_id())
clear_favorites ==
    /\ Begin("clear_favorites", NoArgs)
    /\ IF NotLoggedIn("clear_favorites")
       THEN /\ Fail("AuthenticationError")
            /\ UNCHANGED <<favorites_playlist_id, fixture>>
       ELSE \E guide \in Guides :
            LET r == GetFavoritesPlaylistId(reqs, favorites_playlist_id, guide)
            IN /\ favorites_playlist_id' = r.cached
               /\ IF r.result.status = "raise"
                  THEN /\ pc' = "done"
                       /\ result' = r.result
                       /\ reqs' = r.reqs
                       /\ fixture' = [fixture EXCEPT !.guide = guide]
                       /\ UNCHANGED <<gen, want, local>>
                  ELSE /\ EnterClearPlaylist(r.reqs, r.result.value)
                       /\ UNCHANGED fixture
    /\ UNCHANGED <<logged_in, recv, yielded>>

\* The exception that ends list(...) over the generator, or "none": the
\* one the consumer's lambda raised, or the one the generator raised.
Drained == gen.pc \in {"done", "raised"} \/ local.error # "none"

DrainError ==
    IF local.error # "none" THEN local.error
    ELSE IF gen.pc = "raised" THEN gen.error
    ELSE "none"

\* A faulty collection step: the first set_video_id is read before the loop,
\* so that an empty list raises IndexError.
ClearCollectedPeeking ==
    /\ op \in ClearOps
    /\ pc = "collect"
    /\ Drained
    /\ want' = FALSE
    /\ IF DrainError = "KeyError"
       THEN /\ pc' = "done"
            /\ result' = Return(None)
            /\ UNCHANGED local
       ELSE IF DrainError # "none" \/ local.list = <<>>
       THEN /\ pc' = "done"
            /\ result' = Raise(IF DrainError # "none" THEN DrainError
                               ELSE "IndexError")
            /\ UNCHANGED local
       ELSE /\ pc' = "remove"
            /\ local' = [local EXCEPT !.i = 1]
            /\ UNCHANGED result
    /\ UNCHANGED <<session, op, args, gen, reqs, recv, yielded, fixture>>

\* Lines 318-325: the list of set_video_ids is complete, or list(...) has
\* raised: KeyError is taken for an empty playlist, anything else propagates.
ClearCollected ==
    /\ op \in ClearOps
    /\ pc = "collect"
    /\ Drained
    /\ want' = FALSE
    /\ IF DrainError = "KeyError"
       THEN /\ pc' = "done"
            /\ result' = Return(None)
            /\ UNCHANGED local
       ELSE IF DrainError # "none"
       THEN /\ pc' = "done"
            /\ result' = Raise(DrainError)
            /\ UNCHANGED local
       ELSE /\ pc' = "remove"
            /\ local' = [local EXCEPT !.i = 1]
            /\ UNCHANGED result
    /\ UNCHANGED <<session, op, args, gen, reqs, recv, yielded, fixture>>

\* A faulty loop: a failed removal is passed over and the loop goes on to
\* the next set_video_id.
ClearRemoveContinuing ==
    /\ op \in ClearOps
    /\ pc = "remove"
    /\ IF local.i > Len(local.list)
       THEN /\ pc' = "done"
            /\ result' = Return(None)
            /\ UNCHANGED <<reqs, fixture, local>>
       ELSE \E code \in Codes :
            LET r == RemoveSetVideoId(reqs, local.playlist_id,
                                      local.list[local.i], local.csn,
                                      local.xsrf_token, local.headers, code)
            IN /\ reqs' = r.reqs
               /\ fixture' = [fixture EXCEPT !.codes = Append(@, code)]
               /\ local' = [local EXCEPT !.i = local.i + 1]
               /\ UNCHANGED <<pc, result>>
    /\ UNCHANGED <<session, op, args, gen, want, recv, yielded>>

\* Lines 327-334: one turn of the loop over set_video_ids, or its end.
ClearRemove ==
    /\ op \in ClearOps
    /\ pc = "remove"
    /\ IF local.i > Len(local.list)
       THEN /\ pc' = "done"
            /\ result' = Return(None)
            /\ UNCHANGED <<reqs, fixture, local>>
       ELSE \E code \in Codes :
            LET r == RemoveSetVideoId(reqs, local.playlist_id,
                                      local.list[local.i], local.csn,
                                      local.xsrf_token, local.headers, code)
            IN /\ reqs' = r.reqs
               /\ fixture' = [fixture EXCEPT !.codes = Append(@, code)]
               /\ IF r.result.status = "raise"
                  THEN /\ pc' = "done"
                       /\ result' = r.result
                       /\ UNCHANGED local
                  ELSE /\ local' = [local EXCEPT !.i = local.i + 1]
                       /\ UNCHANGED <<pc, result>>
    /\ UNCHANGED <<session, op, args, gen, want, recv, yielded>>

-----------------------------------------------------------------------------
(* remove_video_id_from_favorites                                          *)

remove_video_id_from_favorites ==
    \E video_id \in Targets :
        /\ Begin("remove_video_id_from_favorites",
                 [NoArgs EXCEPT !.video_id = video_id])
        /\ IF NotLoggedIn("get_favorites_playlist_id")
           THEN \* raised by get_favorites_playlist_id (line 345)
                /\ Fail("AuthenticationError")
                /\ UNCHANGED <<favorites_playlist_id, fixture>>
           ELSE \E guide \in Guides :
                LET r == GetFavoritesPlaylistId(reqs, favorites_playlist_id, guide)
                IN /\ favorites_playlist_id' = r.cached
                   /\ IF r.result.status = "raise"
                      THEN /\ pc' = "done"
                           /\ result' = r.result
                           /\ reqs' = r.reqs
                           /\ fixture' = [fixture EXCEPT !.guide = guide]
                           /\ UNCHANGED <<gen, want, local>>
                      ELSE \* lines 346-350 read as lines 310-316 do
                           /\ EnterClearPlaylist(r.reqs, r.result.value)
                           /\ UNCHANGED fixture
        /\ UNCHANGED <<logged_in, recv, yielded>>

\* Lines 352-367: the first entry kept by the filter is removed; IndexError
\* (no entry kept, or raised inside list(...)) returns.
FavoritesCollected ==
    /\ op = "remove_video_id_from_favorites"
    /\ pc = "collect"
    /\ Drained
    /\ pc' = "done"
    /\ want' = FALSE
    /\ IF DrainError = "IndexError" \/ (DrainError = "none" /\ local.list = <<>>)
       THEN /\ result' = Return(None)
            /\ UNCHANGED <<reqs, fixture>>
       ELSE IF DrainError # "none"
       THEN /\ result' = Raise(DrainError)
            /\ UNCHANGED <<reqs, fixture>>
       ELSE \E code \in Codes :
            LET entry == local.list[1]
                r == RemoveSetVideoId(reqs, local.playlist_id, entry.id,
                                      local.csn, local.xsrf_token,
                                      local.headers, code)
            IN /\ reqs' = r.reqs
               /\ result' = r.result
               /\ fixture' = [fixture EXCEPT !.codes = <<code>>]
    /\ UNCHANGED <<session, op, args, gen, recv, yielded, local>>

-----------------------------------------------------------------------------
(* remove_video_id_from_history                                            *)

\* entry['videoRenderer']['menu'][...]['serviceEndpoint'] (lines 451-452)
EntryEndpoint(entry) == <<"serviceEndpoint", entry.id>>

remove_video_id_from_history ==
    \E video_id \in Targets :
        /\ Begin("remove_video_id_from_history",
                 [NoArgs EXCEPT !.video_id = video_id])
        /\ IF NotLoggedIn("remove_video_id_from_history")
           THEN Fail("AuthenticationError")
           ELSE LET rq1 == Append(reqs, PageRequest(HISTORY_URL))
                    ytcfg == find_ytcfg(Fetched(rq1))
                IN /\ gen' = NewGen("history", None)
                   /\ reqs' = rq1
                   /\ local' = [NoLocal EXCEPT !.csn = ytcfg.EVENT_ID,
                                               !.xsrf_token = ytcfg.XSRF_TOKEN,
                                               !.headers = ytcfg_headers(ytcfg)]
                   /\ pc' = "collect"
                   /\ want' = TRUE
                   /\ result' = NoResult
        /\ UNCHANGED <<session, recv, yielded, fixture>>

\* A faulty reading of the response: a code other than SUCCESS raises, as
\* it does in remove_set_video_id_from_playlist.
HistoryOutcomeRaising(code) ==
    IF code # "SUCCESS" THEN Raise("UnexpectedError") ELSE Return(TRUE)

\* return resp['code'] == 'SUCCESS' (line 467)
HistoryOutcome(code) == Return(code = "SUCCESS")

\* Lines 440-467.
HistoryCollected ==
    /\ op = "remove_video_id_from_history"
    /\ pc = "collect"
    /\ Drained
    /\ pc' = "done"
    /\ want' = FALSE
    /\ IF DrainError = "IndexError" \/ (DrainError = "none" /\ local.list = <<>>)
       THEN /\ result' = Return(FALSE)
            /\ UNCHANGED <<reqs, fixture>>
       ELSE IF DrainError # "none"
       THEN /\ result' = Raise(DrainError)
            /\ UNCHANGED <<reqs, fixture>>
       ELSE \E code \in Codes :
            LET entry == local.list[1]
                form_data == [sej |-> EntryEndpoint(entry), csn |-> local.csn,
                              session_token |-> local.xsrf_token]
            IN /\ reqs' = Append(reqs,
                     ServiceRequest([name |-> "feedbackEndpoint"], form_data,
                                    local.headers))
               /\ result' = HistoryOutcome(code)
               /\ fixture' = [fixture EXCEPT !.codes = <<code>>]
    /\ UNCHANGED <<session, op, args, gen, recv, yielded, local>>

-----------------------------------------------------------------------------
(* util.path: navigation by dotted path.                                   *)

Digits == <<"0", "1", "2", "3", "4", "5", "6", "7", "8", "9">>

IsDigit(ch) == \E d \in 1..Len(Digits) : Digits[d] = ch

DigitValue(ch) == (CHOOSE d \in 1..Len(Digits) : Digits[d] = ch) - 1

\* s.split('.'): the pieces between the dots, empty pieces included.
RECURSIVE SplitDots(_, _, _)
SplitDots(s, i, piece) ==
    IF i > Len(s) THEN <<piece>>
    ELSE IF s[i] = "." THEN <<piece>> \o SplitDots(s, i + 1, <<>>)
    ELSE SplitDots(s, i + 1, Append(piece, s[i]))

RECURSIVE DigitsValue(_, _, _)
DigitsValue(s, i, acc) ==
    IF i > Len(s) THEN acc
    ELSE DigitsValue(s, i + 1, 10 * acc + DigitValue(s[i]))

AllDigits(s) == s # <<>> /\ \A i \in 1..Len(s) : IsDigit(s[i])

\* int(prop) for a str: an optional sign and decimal digits, else
\* ValueError (TypeError is raised for non-str arguments only).
ParseInt(prop) ==
    IF AllDigits(prop) THEN Ok(DigitsValue(prop, 1, 0))
    ELSE IF prop # <<>> /\ prop[1] \in {"-", "+"} /\ AllDigits(Tail(prop))
    THEN Ok((IF prop[1] = "-" THEN -1 ELSE 1) * DigitsValue(Tail(prop), 1, 0))
    ELSE Err("ValueError")

\* The loop of path (lines 113-121) from the i-th piece on.
RECURSIVE PathLoop(_, _, _)
PathLoop(props, i, obj) ==
    IF i > Len(props) THEN Ok(obj)
    ELSE LET prop == props[i]
             int_prop == ParseInt(prop)
             r == IF obj.tag = "list"
                  THEN IF int_prop.ok THEN Subscript(obj, Idx(int_prop.val))
                       ELSE int_prop
                  ELSE Subscript(obj, [k |-> "key", v |-> prop])
         IN IF r.ok THEN PathLoop(props, i + 1, r.val) ELSE r

path(s, obj) == PathLoop(SplitDots(s, 1, <<>>), 1, obj)

\* A faulty path_default: only KeyError is caught.
path_default_KeyErrorOnly(s, obj, default) ==
    LET r == path(s, obj)
    IN IF ~r.ok /\ r.err = "KeyError" THEN Ok(default) ELSE r

\* path_default (lines 125-129): IndexError and KeyError give the default.
path_default(s, obj, default) ==
    LET r == path(s, obj)
    IN IF ~r.ok /\ r.err \in {"IndexError", "KeyError"} THEN Ok(default) ELSE r

\* Longest dotted path a caller passes, in symbols.
MaxPathLen == 5

\* The symbols of the paths: a key, digits, the sign and the separator.
PathSymbols == {"a", "0", "1", "-", "."}

Paths == SeqsUpTo(PathSymbols, MaxPathLen)

\* The nested structures the accessors are applied to.
Fixtures ==
    {Dict(Entry("a", List(<<Scalar("x"), Dict(Entry("a", Scalar("y")))>>))),
     List(<<List(<<>>), Dict(Entry("a", Scalar("z")))>>),
     Dict(Entry("a", Dict(Entry("a", Scalar("w")))))}

Defaults == {Scalar("default")}

\* The accessors are pure functions: a caller holds a path, a structure and
\* a default, and applies either accessor to them, any number of times.
InitPath ==
    /\ logged_in = FALSE
    /\ favorites_playlist_id = None
    /\ op = "idle"
    /\ args \in [s : Paths, obj : Fixtures, default : Defaults]
    /\ pc = "idle"
    /\ gen = NoGen
    /\ want = FALSE
    /\ reqs = <<>>
    /\ recv = <<>>
    /\ yielded = <<>>
    /\ result = NoResult
    /\ fixture = NoFixture
    /\ local = NoLocal

\* The outcome of a call from the value or exception of its expression.
Outcome(r) == IF r.ok THEN Return(r.val) ELSE Raise(r.err)

\* path(s, obj)
CallPath ==
    /\ pc = "idle"
    /\ op' = "path"
    /\ pc' = "done"
    /\ result' = Outcome(path(args.s, args.obj))
    /\ UNCHANGED <<session, args, gen, want, reqs, recv, yielded, fixture, local>>

\* path_default(s, obj, default)
CallPathDefault ==
    /\ pc = "idle"
    /\ op' = "path_default"
    /\ pc' = "done"
    /\ result' = Outcome(path_default(args.s, args.obj, args.default))
    /\ UNCHANGED <<session, args, gen, want, reqs, recv, yielded, fixture, local>>

\* The caller has the outcome and may call again.
PathReturned ==
    /\ pc = "done"
    /\ op \in {"path", "path_default"}
    /\ op' = "idle"
    /\ pc' = "idle"
    /\ result' = NoResult
    /\ UNCHANGED <<session, args, gen, want, reqs, recv, yielded, fixture, local>>

NextPath == CallPath \/ CallPathDefault \/ PathReturned

SpecPath == InitPath /\ [][NextPath]_vars

-----------------------------------------------------------------------------
(* pause_resume_search_history                                             *)

\* The dotted path of lines 490-493.
CONFIRM_ENDPOINT ==
    <<"contents", ".", "twoColumnBrowseResultsRenderer", ".",
      "secondaryContents", ".", "browseFeedActionsRenderer", ".", "contents",
      ".", "2", ".", "buttonRenderer", ".", "navigationEndpoint", ".",
      "confirmDialogEndpoint", ".", "content", ".", "confirmDialogRenderer",
      ".", "confirmEndpoint">>

\* The same place as the site lays it out.
CONFIRM_ENDPOINT_PATH ==
    SubSeq(CLEAR_BUTTON_PATH, 1, 11) \o <<Key("confirmEndpoint")>>

\* The endpoint descriptor the site serves there.
ConfirmEndpoint ==
    Dict(Entry("commandMetadata",
               Dict(Entry("webCommandMetadata",
                          Dict(Entry("apiUrl", Scalar("/youtubei/v1/feedback"))))))
         @@ Entry("clickTrackingParams", Scalar("itct"))
         @@ Entry("feedbackEndpoint",
                  Dict(Entry("feedbackToken", Scalar("feedbackToken")))))

\* self._download_page(f'https://www.youtube.com{api_url}', method='post', ...)
ApiRequest(api_url, feedbackToken, clickTrackingParams, key) ==
    [kind |-> "api", url |-> <<"https://www.youtube.com", api_url>>,
     params |-> [key |-> key],
     data |-> [feedbackTokens |-> <<feedbackToken>>,
               clickTrackingParams |-> clickTrackingParams],
     headers |-> <<"Authorization", "SAPISIDHASH">>]

pause_resume_search_history ==
    /\ Begin("pause_resume_search_history", NoArgs)
    /\ pc' = "done"
    /\ IF NotLoggedIn("pause_resume_search_history")
       THEN /\ result' = Raise("AuthenticationError")
            /\ UNCHANGED <<reqs, fixture>>
       ELSE \E cut \in 0..Len(CONFIRM_ENDPOINT_PATH), listLen \in ListLens,
               sapisid \in BOOLEAN, isProcessed \in BOOLEAN :
            LET rq1 == Append(reqs, PageRequest(SEARCH_HISTORY_URL))
                yt_init_data == Served(CONFIRM_ENDPOINT_PATH, 1, cut, listLen,
                                       ConfirmEndpoint)
                info == path(CONFIRM_ENDPOINT, yt_init_data)
                api_url == SubscriptChain(info.val,
                               <<Key("commandMetadata"), Key("webCommandMetadata"),
                                 Key("apiUrl")>>, 1)
                token == SubscriptChain(info.val,
                               <<Key("feedbackEndpoint"), Key("feedbackToken")>>, 1)
                itct == Subscript(info.val, Key("clickTrackingParams"))
            IN /\ fixture' = [fixture EXCEPT !.cut = cut, !.listLen = listLen,
                                             !.sapisid = sapisid]
               /\ IF ~info.ok
                  THEN /\ reqs' = rq1
                       /\ result' = Raise(info.err)
                  ELSE IF ~sapisid
                  THEN \* assert sapisid is not None (line 476)
                       /\ reqs' = rq1
                       /\ result' = Raise("AssertionError")
                  ELSE /\ reqs' = Append(rq1,
                              ApiRequest(api_url.val.val, token.val.val,
                                         itct.val.val, "INNERTUBE_API_KEY"))
                       /\ result' = Return(isProcessed)
    /\ UNCHANGED <<session, gen, want, recv, yielded, local>>

-----------------------------------------------------------------------------

Next ==
    \/ login
    \/ Finish
    \/ remove_set_video_id_from_playlist
    \/ clear_watch_history
    \/ get_favorites_playlist_id
    \/ get_playlist_info
    \/ get_history_info
    \/ IterNext
    \/ IterStop
    \/ IterEnd
    \/ GenStart
    \/ GenYield
    \/ GenNextSection
    \/ GenContinue
    \/ clear_playlist
    \/ clear_watch_later
    \/ clear_favorites
    \/ ClearCollected
    \/ ClearRemove
    \/ remove_video_id_from_favorites
    \/ FavoritesCollected
    \/ remove_video_id_from_history
    \/ HistoryCollected
    \/ pause_resume_search_history

Spec == Init /\ [][Next]_vars

-----------------------------------------------------------------------------
(* Properties.                                                             *)

\* The mutation requests of the call: the ones sent to the service endpoint.
Mutations == OfKind(reqs, "service")

\* The continuation requests of the call.
Continuations == OfKind(reqs, "browse")

\* The pager has read the whole collection: every page received is well
\* formed, every page but the last carries a cursor, the last carries none.
CollectionRead ==
    /\ recv # <<>>
    /\ \A i \in 1..Len(recv) :
        /\ recv[i].shape = "ok"
        /\ recv[i].next.kind = IF i < Len(recv) THEN "cursor" ELSE "absent"

\* C1: for both pagers, over a collection of N >= 1 pages of which every
\* page but the last carries a cursor, the pager yields the concatenation of
\* the pages' items in page order, issues N - 1 continuation requests and
\* terminates after page N.
C1_PagerConcatenates ==
    CollectionRead =>
        /\ gen.pc = "done"
        /\ yielded = Concat(gen.kind, recv)
        /\ Len(Continuations) = Len(recv) - 1

\* C1 happens: a history of three pages, items on the first and the last,
\* read to its end.
C1_Witness ==
    /\ CollectionRead
    /\ gen.kind = "history"
    /\ Len(recv) = 3
    /\ PageItems("history", recv[1]) # <<>>
    /\ PageItems("history", recv[3]) # <<>>
    /\ Len(yielded) = 2

\* C2: when the initial page carries no continuation cursor, the pager
\* yields exactly the first page's items and terminates with zero
\* continuation requests.
C2_SinglePage ==
    (recv # <<>> /\ recv[1].shape = "ok" /\ recv[1].next.kind = "absent") =>
        /\ gen.pc = "done"
        /\ Len(recv) = 1
        /\ yielded = PageItems(gen.kind, recv[1])
        /\ Continuations = <<>>

\* C2 happens: a playlist whose only page holds two entries and no cursor,
\* iterated to its end by the caller.
C2_Witness ==
    /\ op = "get_playlist_info"
    /\ pc = "done"
    /\ result.status = "return"
    /\ Len(recv) = 1
    /\ recv[1].shape = "ok"
    /\ recv[1].next.kind = "absent"
    /\ Len(yielded) = 2

\* C3: while the logged-in flag is false, every operation that requires
\* login ends with AuthenticationError, no HTTP request is issued and the
\* session state (the flag, the cached favorites id) stays as it was.  An
\* enumeration fails when its first item is asked for: a caller that drops
\* it before that sees nothing.
C3_LoginRequired ==
    ~logged_in =>
        /\ reqs = <<>>
        /\ recv = <<>>
        /\ favorites_playlist_id = None
        /\ gen.pc \in {"none", "start", "closed", "raised"}
        /\ gen.pc = "raised" => gen.error = "AuthenticationError"
        /\ (pc = "done" /\ gen.pc # "closed") =>
              /\ result.status = "raise"
              /\ result.error = "AuthenticationError"

\* C3 happens: the history enumeration, started while logged out, has failed
\* at its first item.
C3_Witness ==
    /\ ~logged_in
    /\ op = "get_history_info"
    /\ pc = "done"
    /\ gen.pc = "raised"
    /\ result.error = "AuthenticationError"

\* C4: remove_set_video_id_from_playlist, authenticated, returns normally if
\* and only if the response's status is SUCCESS and raises UnexpectedError
\* for every other status; exactly one mutation request is issued in both
\* cases.
C4_RemoveSetVideoId ==
    (op = "remove_set_video_id_from_playlist" /\ pc = "done" /\ logged_in) =>
        /\ Len(Mutations) = 1
        /\ Len(fixture.codes) = 1
        /\ fixture.codes[1] = "SUCCESS" <=> result.status = "return"
        /\ fixture.codes[1] # "SUCCESS" <=>
              (result.status = "raise" /\ result.error = "UnexpectedError")

\* C4 happens: a removal answered with a status that is neither SUCCESS nor
\* FAILURE, by a caller that passed no tokens.
C4_Witness ==
    /\ op = "remove_set_video_id_from_playlist"
    /\ pc = "done"
    /\ logged_in
    /\ fixture.codes = <<"PENDING">>
    /\ result.error = "UnexpectedError"
    /\ Len(reqs) = 2

\* C5: when the clear request is issued and the service answers with a
\* status other than SUCCESS, clear_watch_history raises UnexpectedError.
C5_ClearHistoryRaises ==
    (/\ op = "clear_watch_history"
     /\ pc = "done"
     /\ Mutations # <<>>
     /\ fixture.codes[1] # "SUCCESS") =>
        (result.status = "raise" /\ result.error = "UnexpectedError")

\* C6: clear_watch_history returns silently with zero mutation requests for
\* every way the confirmation-button descriptor can be absent: a mapping key
\* missing at any level, or an action list of fewer than three entries.
C6_ClearHistoryAbsentButton ==
    (/\ op = "clear_watch_history"
     /\ pc = "done"
     /\ logged_in
     /\ (fixture.cut # 0 \/ fixture.listLen < 3)) =>
        (result.status = "return" /\ Mutations = <<>>)

\* C7: once a lookup has succeeded the favorites id is cached, and from then
\* on it is never overwritten and every lookup returns it without fetching
\* a page.
C7_FavoritesCached ==
    /\ [](  (op = "get_favorites_playlist_id" /\ pc = "done"
                /\ result.status = "return")
            => (result.value # None /\ favorites_playlist_id = result.value))
    /\ [][ favorites_playlist_id # None =>
            /\ favorites_playlist_id' = favorites_playlist_id
            /\ (pc = "idle" /\ op' = "get_favorites_playlist_id") =>
                  /\ result'.status = "return"
                  /\ result'.value = favorites_playlist_id
                  /\ reqs' = <<>> ]_vars

\* C7 happens: a lookup answered from the cache.
C7_Witness ==
    /\ op = "get_favorites_playlist_id"
    /\ pc = "done"
    /\ logged_in
    /\ reqs = <<>>
    /\ result.status = "return"
    /\ result.value = favorites_playlist_id

\* The exceptions of the LookupError kind.
LookupErrors == {"LookupError", "KeyError", "IndexError"}

\* C8: when the guide's section list is reached and the lookup finds no
\* favorites marker, it fails with an error of the LookupError kind and
\* leaves the cache unset.
C8_FavoritesNotFound ==
    (/\ op = "get_favorites_playlist_id"
     /\ pc = "done"
     /\ Fetched(reqs) = 1
     /\ fixture.guide.cut = 0
     /\ fixture.guide.listLen = 5
     /\ result.status = "raise") =>
        (result.error \in LookupErrors /\ favorites_playlist_id = None)

\* C9: when the enumeration of the history ends and no item with a video
\* renderer has the given video id, remove_video_id_from_history returns
\* false and issues zero service requests.
C9_HistoryNoMatch ==
    (/\ op = "remove_video_id_from_history"
     /\ pc = "done"
     /\ gen.pc = "done"
     /\ \A i \in 1..Len(yielded) : yielded[i].videoId # args.video_id) =>
        /\ result.status = "return"
        /\ result.value = FALSE
        /\ Mutations = <<>>

\* C9 happens: two pages of history, an item without a video renderer and
\* an item of another video, and the call has returned.
C9_Witness ==
    /\ op = "remove_video_id_from_history"
    /\ pc = "done"
    /\ gen.pc = "done"
    /\ Len(recv) = 2
    /\ Len(yielded) = 2
    /\ \E i, j \in 1..2 : yielded[i].videoId = None /\ yielded[j].videoId = "v2"
    /\ result.status = "return"

\* C10: when the enumeration of the playlist ends having yielded no entry,
\* clear_playlist issues zero deletion requests and returns normally.
C10_ClearEmptyPlaylist ==
    (op \in ClearOps /\ pc = "done" /\ gen.pc = "done" /\ yielded = <<>>) =>
        /\ result.status = "return"
        /\ Mutations = <<>>

\* C10 happens: clear_playlist has returned from a playlist of two empty
\* pages.
C10_Witness ==
    /\ op = "clear_playlist"
    /\ pc = "done"
    /\ gen.pc = "done"
    /\ yielded = <<>>
    /\ Len(recv) = 2
    /\ result.status = "return"

\* C11: when the enumeration of the Favorites playlist does not fail and no
\* entry it yields has the given video id, remove_video_id_from_favorites
\* returns normally and issues zero removal requests.
C11_FavoritesNoMatch ==
    (/\ op = "remove_video_id_from_favorites"
     /\ pc = "done"
     /\ gen.kind = "playlist"
     /\ gen.pc # "raised"
     /\ \A i \in 1..Len(yielded) : yielded[i].videoId # args.video_id) =>
        (result.status = "return" /\ Mutations = <<>>)

\* The exceptions of a missing segment: an absent mapping key, a sequence
\* index out of range.
MissingSegment == {"KeyError", "IndexError"}

\* C12: for every dotted path and nested structure, path_default returns
\* what path returns whenever path succeeds; when a segment is missing path
\* raises KeyError or IndexError and path_default returns the caller's
\* default; neither call changes the structure.
C12_PathDefaultAgrees ==
    /\ [](pc = "done" =>
            LET strict == path(args.s, args.obj)
            IN /\ (op = "path" /\ result.status = "raise"
                      /\ result.error \in MissingSegment) =>
                     (~strict.ok /\ strict.err = result.error)
               /\ (op = "path_default" /\ strict.ok) =>
                     (result.status = "return" /\ result.value = strict.val)
               /\ (op = "path_default" /\ ~strict.ok
                      /\ strict.err \in MissingSegment) =>
                     (result.status = "return" /\ result.value = args.default)
               /\ (op = "path_default" /\ ~strict.ok
                      /\ strict.err \notin MissingSegment) =>
                     (result.status = "raise" /\ result.error = strict.err))
    /\ [][args' = args]_vars

\* C12 happens: path_default has returned the default for an index out of
\* range two levels down.
C12_Witness ==
    /\ op = "path_default"
    /\ pc = "done"
    /\ args.s = <<"a", ".", "1", "0">>
    /\ args.obj.tag = "dict"
    /\ path(args.s, args.obj).err = "IndexError"
    /\ result.status = "return"
    /\ result.value = args.default

\* The i-th segment of the path is applied to a sequence node and is not
\* parseable as an integer.
NonIntegerOnList(props, i, obj) ==
    LET before == PathLoop(SubSeq(props, 1, i - 1), 1, obj)
    IN before.ok /\ before.val.tag = "list" /\ ~ParseInt(props[i]).ok

\* C13: path, reaching a sequence node with a segment that is not parseable
\* as an integer, fails with TypeError.
C13_NonIntegerIsTypeError ==
    (/\ op = "path"
     /\ pc = "done"
     /\ LET props == SplitDots(args.s, 1, <<>>)
        IN \E i \in 1..Len(props) : NonIntegerOnList(props, i, args.obj)) =>
        (result.status = "raise" /\ result.error = "TypeError")

\* C14: for both pagers, when 'contents' is missing from the list renderer
\* of the initial state, the first batch is empty and no error is raised:
\* the pager has yielded nothing and stands before its cursor check.
C14_MissingContentsIsEmpty ==
    (/\ recv # <<>>
     /\ recv[1].shape = "noContents"
     /\ recv[1].next.kind = "unread") =>
        (gen.pc # "raised" /\ yielded = <<>>)

\* C15: whatever the site serves, no cursor value is sent in more than one
\* continuation request of the same enumeration.
C15_NoCursorSentTwice ==
    \A i, j \in 1..Len(Continuations) :
        i < j =>
            Continuations[i].params.continuation
                # Continuations[j].params.continuation

\* The number of received pages whose items have all been handed to the
\* consumer.
Consumed ==
    Cardinality({k \in 1..Len(recv) :
        Len(yielded) >= Len(Concat(gen.kind, SubSeq(recv, 1, k)))})

\* C16: for both pagers, at every point the number of continuation requests
\* issued is at most the number of pages completely consumed; a continuation
\* request is issued only while the consumer is asking for an item, all
\* items received so far having been handed over; and once the consumer has
\* stopped iterating no request is issued.
C16_LazyPager ==
    /\ [](Len(Continuations) <= Consumed)
    /\ [][ /\ Len(Continuations') > Len(Continuations) =>
                (want /\ yielded = Concat(gen.kind, recv))
           /\ gen.pc = "closed" => Len(reqs') <= Len(reqs) ]_vars

\* C16 happens: the caller has taken the first of the two items of a page
\* that carries more, and has stopped: one page request, no continuation.
C16_Witness ==
    /\ op = "get_history_info"
    /\ pc = "done"
    /\ gen.pc = "closed"
    /\ Len(recv) = 1
    /\ Len(PageItems("history", recv[1])) = 2
    /\ Len(yielded) = 1
    /\ Len(reqs) = 1

\* The last response received is a continuation response without its
\* 'continuationContents' envelope or without the per-kind container in it.
MalformedContinuation ==
    /\ Len(recv) >= 2
    /\ recv[Len(recv)].shape \in {"noEnvelope", "noContainer"}

\* C17: for both pagers, when continuation response k is malformed the
\* enumeration aborts there with an error, no further request is issued, and
\* the items of the pages before k have all been yielded, in order.
C17_MalformedContinuationAborts ==
    MalformedContinuation =>
        /\ gen.pc = "raised"
        /\ gen.error = "KeyError"
        /\ yielded = Concat(gen.kind, SubSeq(recv, 1, Len(recv) - 1))
        /\ Len(Continuations) = Len(recv) - 1
        /\ (pc = "done" /\ op \in {"get_playlist_info", "get_history_info"}) =>
              (result.status = "raise" /\ result.error = "KeyError")

\* C17 happens: the second continuation response of a playlist lacks its
\* container, after two items, and the caller has seen the error.
C17_Witness ==
    /\ MalformedContinuation
    /\ op = "get_playlist_info"
    /\ pc = "done"
    /\ Len(recv) = 3
    /\ recv[3].shape = "noContainer"
    /\ Len(yielded) = 2
    /\ result.status = "raise"

\* C18: in clear_playlist, the error the enumeration raises on a malformed
\* continuation response reaches the caller of clear_playlist as an error.
C18_ClearPlaylistPropagates ==
    (op \in ClearOps /\ pc = "done" /\ MalformedContinuation) =>
        result.status = "raise"

\* C19: for both pagers, the k-th continuation request carries exactly the
\* cursor pair of the page before it (the initial state for k = 1, response
\* k - 1 otherwise), with 'ctoken' equal to 'continuation'.
C19_CursorOfPrecedingPage ==
    \A k \in 1..Len(Continuations) :
        LET params == Continuations[k].params
            cursor == recv[k].next.cursor
        IN /\ recv[k].next.kind = "cursor"
           /\ params.continuation = cursor.continuation
           /\ params.ctoken = cursor.continuation
           /\ params.itct = cursor.itct

\* C19 happens: a history enumeration has sent two continuation requests,
\* the second with the cursor of the first continuation response.
C19_Witness ==
    /\ op = "get_history_info"
    /\ Len(Continuations) = 2
    /\ recv[2].next.cursor = Cursor(2)
    /\ Continuations[2].params.itct = Cursor(2).itct
    /\ Continuations[1].params.itct = Cursor(1).itct

\* C20: in get_history_info the first continuation request posts the session
\* token of the history page's config, and request k + 1 posts the token
\* returned in continuation response k.
C20_HistoryTokenRefreshed ==
    gen.kind = "history" =>
        \A k \in 1..Len(Continuations) :
            Continuations[k].data.session_token =
                IF k = 1 THEN find_ytcfg(Fetched(reqs)).XSRF_TOKEN
                ELSE recv[k].xsrf_token

\* C20 happens: remove_video_id_from_history has gone through three pages
\* of history; the second continuation request carries the token of the
\* first continuation response.
C20_Witness ==
    /\ op = "remove_video_id_from_history"
    /\ gen.kind = "history"
    /\ Len(Continuations) = 2
    /\ Continuations[1].data.session_token = find_ytcfg(2).XSRF_TOKEN
    /\ Continuations[2].data.session_token = recv[2].xsrf_token
    /\ recv[2].xsrf_token # recv[1].xsrf_token

\* The enumerated entries that carry the requested video id, in the order
\* of the enumeration.
Matches == SelectSeq(yielded, LAMBDA x : x.videoId = args.video_id)

\* C21: when the enumeration does not fail and several of the entries it
\* yields carry the requested video id, remove_video_id_from_history and
\* remove_video_id_from_favorites each issue exactly one mutation request,
\* built from the first of them in enumeration order: its service endpoint
\* for the history, its set-video-id for Favorites.
C21_FirstMatchWins ==
    (/\ op \in {"remove_video_id_from_history", "remove_video_id_from_favorites"}
     /\ pc = "done"
     /\ gen.pc # "raised"
     /\ Len(Matches) >= 2) =>
        /\ Len(Mutations) = 1
        /\ Mutations[1].data.sej =
             IF op = "remove_video_id_from_history"
             THEN EntryEndpoint(Matches[1])
             ELSE PlaylistEditSej(local.playlist_id, Matches[1].id)

\* Every removal request of the call follows every continuation request.
RemovalsAfterEnumeration ==
    \A i, j \in 1..Len(reqs) :
        (reqs[i].kind = "service" /\ reqs[j].kind = "browse") => j < i

\* C22: when the enumeration of the playlist has completed with entries
\* e1..en, each with a set-video-id, and every removal has succeeded,
\* clear_playlist has issued exactly n removal requests, the i-th carrying
\* the set-video-id of ei; and in every state of clear_playlist a removal
\* request exists only once the enumeration has completed, after all of its
\* continuation requests.
C22_ClearInEnumerationOrder ==
    /\ (op \in ClearOps /\ Mutations # <<>>) =>
            (gen.pc = "done" /\ RemovalsAfterEnumeration)
    /\ (/\ op \in ClearOps
        /\ pc = "done"
        /\ gen.pc = "done"
        /\ \A i \in 1..Len(yielded) : yielded[i].videoId # None
        /\ \A i \in 1..Len(fixture.codes) : fixture.codes[i] = "SUCCESS") =>
            /\ result.status = "return"
            /\ Len(Mutations) = Len(yielded)
            /\ \A i \in 1..Len(yielded) :
                 Mutations[i].data.sej =
                     PlaylistEditSej(local.playlist_id, yielded[i].id)

\* C22 happens: clear_playlist has returned from a playlist of two pages,
\* one entry on each, after one continuation request and then two removal
\* requests, for the set-video-ids 1 and 2 in this order.
C22_Witness ==
    /\ op = "clear_playlist"
    /\ pc = "done"
    /\ result.status = "return"
    /\ Len(recv) = 2
    /\ Len(PageItems("playlist", recv[1])) = 1
    /\ Len(yielded) = 2
    /\ Len(Continuations) = 1
    /\ Len(Mutations) = 2
    /\ Mutations[1].data.sej.setVideoId = 1
    /\ Mutations[2].data.sej.setVideoId = 2
    /\ fixture.codes = <<"SUCCESS", "SUCCESS">>

\* The removals of clear_playlist that did not succeed: their positions in
\* the sequence of removal responses.
FailedRemovals == {k \in 1..Len(fixture.codes) : fixture.codes[k] # "SUCCESS"}

\* C23: in clear_playlist, once the removal of entry k has returned a code
\* other than SUCCESS, the call has ended with UnexpectedError; k removal
\* requests were issued, one for each of the entries 1..k in order and none
\* twice, none for the entries after k, and no request follows the k-th
\* removal.
C23_ClearStopsAtFirstFailure ==
    (op \in ClearOps /\ FailedRemovals # {}) =>
        LET k == Len(fixture.codes)
        IN /\ FailedRemovals = {k}
           /\ pc = "done"
           /\ result.status = "raise"
           /\ result.error = "UnexpectedError"
           /\ Len(Mutations) = k
           /\ k <= Len(yielded)
           /\ \A i \in 1..k :
                Mutations[i].data.sej =
                    PlaylistEditSej(local.playlist_id, yielded[i].id)
           /\ reqs[Len(reqs)] = Mutations[k]

\* C23 happens: of a playlist of three entries the first is removed, the
\* removal of the second fails, and the third is left alone.
C23_Witness ==
    /\ op = "clear_playlist"
    /\ pc = "done"
    /\ Len(yielded) = 3
    /\ local.list = <<1, 2, 3>>
    /\ fixture.codes = <<"SUCCESS", "FAILURE">>
    /\ Len(Mutations) = 2
    /\ result.error = "UnexpectedError"

\* C24: when the enumeration of the history has completed and an entry it
\* yielded carries the given video id, remove_video_id_from_history has
\* issued exactly one mutation request and has returned, without raising,
\* true if the response's code is SUCCESS and false on any other code.
C24_HistoryReturnsSuccess ==
    (/\ op = "remove_video_id_from_history"
     /\ pc = "done"
     /\ gen.pc = "done"
     /\ Matches # <<>>) =>
        /\ Len(Mutations) = 1
        /\ Len(fixture.codes) = 1
        /\ result.status = "return"
        /\ result.value = (fixture.codes[1] = "SUCCESS")

\* C24 happens: the video is on the second page of the history, the site
\* answers the removal with PENDING and the call has returned false.
C24_Witness ==
    /\ op = "remove_video_id_from_history"
    /\ pc = "done"
    /\ gen.pc = "done"
    /\ Len(recv) = 2
    /\ PageItems("history", recv[1]) = <<>>
    /\ Len(Matches) = 1
    /\ fixture.codes = <<"PENDING">>
    /\ Len(Mutations) = 1
    /\ result.status = "return"
    /\ result.value = FALSE

====
